---- MODULE Spec2Model ----
(***************************************************************************)
(* Model of the telegraf agent runtime (src/agent.go): Agent.Run, the      *)
(* parallel and separate gatherers, the point channel, the flusher and the *)
(* per-(batch, output) writers; Agent.Test with the flusher it starts; and *)
(* the calls made around them: LoadOutputs, LoadPlugins, Connect, Close.   *)
(*                                                                         *)
(* Goroutines are processes with a program counter each.  A ticker is not  *)
(* a variable: a select that waits on ticker.C may take the tick branch    *)
(* whenever it is reached (the tick "has fired"), so a tick pending at the *)
(* same time as shutdown is the state where both branches are enabled.     *)
(***************************************************************************)
EXTENDS Integers, Sequences, FiniteSets, TLC

\* ------------------------------------------------------------ bounds
\* Length of a.plugins.
NumPlugins == 2
\* Length of a.outputs.
NumOutputs == 2
\* FlushRetries is configured in 0..MaxFlushRetries.
MaxFlushRetries == 1
\* Capacity of pointChan (1000 in Run, scaled down).
ChanCap == 1
\* Total number of points the collectors publish in one run.
MaxPoints == 2

\* Longest a.outputs and a.plugins the Load calls build.
MaxLoaded == 2

Plugins == 1..NumPlugins
Outputs == 1..NumOutputs

\* The registered collector names (plugins.Plugins) and sink names
\* (outputs.Outputs) a configuration declares.
PluginNames == {"cpu", "mem"}
OutputNames == {"influxdb", "kafka"}

VARIABLES
    interval,      \* plugin.config.Interval of each running plugin (0: global)
    service,       \* whether the plugin is a plugins.ServicePlugin
    flushRetries,  \* a.FlushRetries
    name,          \* runningPlugin.name of each running plugin
    shutdown,      \* the shutdown channel is closed
    runPc,         \* position of Agent.Run
    runI,          \* index of Run's loop over a.plugins
    runErr,        \* Run returns the error of a failed Start
    deferred,      \* Run's stack of deferred p.Stop() calls (last is top)
    stopped,       \* the plugins whose Stop was called, in call order
    wg,            \* Run's WaitGroup counter
    parWg,         \* gatherParallel's WaitGroup counter
    parTasks,      \* parallel-mode Gather calls in progress, per plugin
    parBlocked,    \* those of them blocked in a send on a full pointChan
    passCount,     \* Gather invocations of the current parallel pass, per plugin
    sepPc,         \* position of each gatherSeparate task
    pointChan,     \* the buffered point channel
    sent,          \* number of points sent into pointChan so far (point ids)
    blockedIds,    \* the points whose send had to wait for room in pointChan
    flusherPc,     \* position of the flusher
    points,        \* the flusher's buffer
    batches,       \* the non-empty batches flush has dispatched, in order
    writers,       \* the writeOutput tasks, in spawn order
    testPc,        \* position of Agent.Test
    testI,         \* index of Test's loop over a.plugins
    testErr,       \* Test returns the error of a failed Gather
    gatherCalls,   \* Gather invocations made by Test, per plugin
    accOf,         \* the accumulator each point of Test was published through
    outputNames,   \* names of a.outputs as LoadOutputs built it
    pluginNames,   \* names of a.plugins as LoadPlugins built it
    lifePc,        \* position of the caller of the Load calls, Connect and Close
    connI,         \* index of Connect's loop over a.outputs
    connLog,       \* the outputs whose Connect was called, in call order
    connRet,       \* what Connect returned: "none" (not yet), "nil" or "err"
    closeI,        \* index of Close's loop over a.outputs
    closeLog,      \* the outputs whose Close was called, in call order
    closeErr       \* Close's local err: the last Close call failed

cfgVars == <<interval, service, flushRetries, name>>
runVars == <<runPc, runI, runErr, deferred, stopped>>
parVars == <<parWg, parTasks, parBlocked, passCount>>
flushVars == <<flusherPc, points, batches, writers>>
taskVars == <<shutdown, runPc, runI, runErr, deferred, stopped, wg, parWg, parTasks,
              parBlocked, passCount, sepPc, pointChan, sent, blockedIds,
              flusherPc, points, batches, writers>>
runOnlyVars == <<runPc, runI, runErr, deferred, stopped, wg, parWg, parTasks,
                 parBlocked, passCount, sepPc, pointChan, blockedIds>>
testVars == <<testPc, testI, testErr, gatherCalls, accOf>>
lifeVars == <<outputNames, pluginNames, lifePc, connI, connLog, connRet,
              closeI, closeLog, closeErr>>
vars == <<interval, service, flushRetries, name, shutdown, runPc, runI, runErr,
          deferred, stopped, wg, parWg, parTasks, parBlocked, passCount,
          sepPc, pointChan, sent, blockedIds, flusherPc, points, batches, writers,
          testPc, testI, testErr, gatherCalls, accOf,
          outputNames, pluginNames, lifePc, connI, connLog, connRet,
          closeI, closeLog, closeErr>>

Init ==
    /\ interval \in [Plugins -> {0, 1}]
    /\ service \in [Plugins -> BOOLEAN]
    /\ flushRetries \in 0..MaxFlushRetries
    /\ name \in [Plugins -> PluginNames]
    /\ shutdown = FALSE
    /\ runPc = "start"
    /\ runI = 1
    /\ runErr = FALSE
    /\ deferred = <<>>
    /\ stopped = <<>>
    /\ wg = 0
    /\ parWg = 0
    /\ parTasks = [p \in Plugins |-> 0]
    /\ parBlocked = [p \in Plugins |-> 0]
    /\ passCount = [p \in Plugins |-> 0]
    /\ sepPc = [p \in Plugins |-> "none"]
    /\ pointChan = <<>>
    /\ sent = 0
    /\ blockedIds = {}
    /\ flusherPc = "none"
    /\ points = <<>>
    /\ batches = <<>>
    /\ writers = <<>>
    /\ testPc = "start"
    /\ testI = 1
    /\ testErr = FALSE
    /\ gatherCalls = [p \in Plugins |-> 0]
    /\ accOf = <<>>
    /\ outputNames = <<>>
    /\ pluginNames = <<>>
    /\ lifePc = "load"
    /\ connI = 1
    /\ connLog = <<>>
    /\ connRet = "none"
    /\ closeI = 1
    /\ closeLog = <<>>
    /\ closeErr = FALSE

\* ------------------------------------------------------------ helpers
RECURSIVE SumTo(_, _)
SumTo(f, n) == IF n = 0 THEN 0 ELSE f[n] + SumTo(f, n - 1)

\* Points a blocked sender is committed to publish.
BlockedSends ==
    SumTo(parBlocked, NumPlugins) + Cardinality({p \in Plugins : sepPc[p] = "blocked"})

\* A collector may still call Add (the model's cap on published points).
CanAdd == sent + BlockedSends < MaxPoints

\* pointChan has room: a send does not block.
ChanHasRoom == Len(pointChan) < ChanCap

\* Accumulator.Add's send of a fresh point onto the shared channel.
AccumulatorSend(waited) ==
    /\ ChanHasRoom
    /\ pointChan' = Append(pointChan, sent + 1)
    /\ sent' = sent + 1
    /\ blockedIds' = IF waited THEN blockedIds \cup {sent + 1} ELSE blockedIds

\* Mutant: gatherParallel without its skip of the plugins that have an interval.
ParallelPlugins_NoSkip == Plugins

\* gatherParallel gathers the plugins it does not skip.
ParallelPlugins == {p \in Plugins : interval[p] = 0}

\* Run starts a gatherSeparate task for a plugin with its own interval.
SeparatePlugin(p) == interval[p] # 0

\* ------------------------------------------------------------ environment
\* The caller of Run closes the shutdown channel, at any time.
Shutdown ==
    /\ ~shutdown
    /\ shutdown' = TRUE
    /\ UNCHANGED <<cfgVars, testVars, lifeVars, runVars, wg, parVars, sepPc,
                   pointChan, sent, blockedIds, flushVars>>

\* ------------------------------------------------------------ Agent.Run
\* wg.Add(1); go a.flusher(shutdown, pointChan)
RunSpawnFlusher ==
    /\ runPc = "start"
    /\ runPc' = "plugins"
    /\ wg' = wg + 1
    /\ flusherPc' = "sleep"
    /\ UNCHANGED <<cfgVars, testVars, lifeVars, shutdown, runI, runErr,
                   deferred, stopped, parVars, sepPc, pointChan, sent,
                   blockedIds, points, batches, writers>>

\* One iteration of the loop over a.plugins: Start of a ServicePlugin (which
\* may fail: Run returns the error, running the Stops deferred so far), the
\* deferred Stop, and the separate gatherer of a plugin with its own interval.
\* After the last iteration Run defers wg.Wait and enters the gather loop.
RunPlugin ==
    /\ runPc = "plugins"
    /\ \E ok \in (IF service[runI] THEN BOOLEAN ELSE {TRUE}) :
         IF ~ok
         THEN /\ runErr' = TRUE
              /\ runPc' = "stopping"
              /\ UNCHANGED <<runI, deferred, wg, sepPc>>
         ELSE /\ deferred' = IF service[runI] THEN Append(deferred, runI) ELSE deferred
              /\ IF SeparatePlugin(runI)
                 THEN /\ wg' = wg + 1
                      /\ sepPc' = [sepPc EXCEPT ![runI] = "gather"]
                 ELSE UNCHANGED <<wg, sepPc>>
              /\ runI' = runI + 1
              /\ runPc' = IF runI = NumPlugins THEN "gather" ELSE "plugins"
              /\ UNCHANGED runErr
    /\ UNCHANGED <<cfgVars, testVars, lifeVars, shutdown, stopped, parVars,
                   pointChan, sent, blockedIds, flushVars>>

\* gatherParallel up to wg.Wait: one task per plugin that is not skipped.
RunGatherParallel ==
    /\ runPc = "gather"
    /\ runPc' = "wait"
    /\ parTasks' = [p \in Plugins |->
                      IF p \in ParallelPlugins THEN parTasks[p] + 1 ELSE parTasks[p]]
    /\ parWg' = parWg + Cardinality(ParallelPlugins)
    /\ passCount' = [p \in Plugins |-> IF p \in ParallelPlugins THEN 1 ELSE 0]
    /\ UNCHANGED <<cfgVars, testVars, lifeVars, shutdown, runI, runErr,
                   deferred, stopped, wg, parBlocked, sepPc, pointChan, sent,
                   blockedIds, flushVars>>

\* Mutant: gatherParallel returns without waiting for its tasks.
ParallelWaitDone_NoWait == TRUE

\* gatherParallel's wg.Wait() returns.
ParallelWaitDone == parWg = 0

RunParallelWait ==
    /\ runPc = "wait"
    /\ ParallelWaitDone
    /\ runPc' = "select"
    /\ UNCHANGED <<cfgVars, testVars, lifeVars, shutdown, runI, runErr,
                   deferred, stopped, wg, parVars, sepPc, pointChan, sent,
                   blockedIds, flushVars>>

\* select: case <-shutdown: return nil (the deferred wg.Wait runs first).
RunSelectShutdown ==
    /\ runPc = "select"
    /\ shutdown
    /\ runPc' = "deferWait"
    /\ UNCHANGED <<cfgVars, testVars, lifeVars, shutdown, runI, runErr,
                   deferred, stopped, wg, parVars, sepPc, pointChan, sent,
                   blockedIds, flushVars>>

\* select: case <-ticker.C: continue
RunSelectTick ==
    /\ runPc = "select"
    /\ runPc' = "gather"
    /\ UNCHANGED <<cfgVars, testVars, lifeVars, shutdown, runI, runErr,
                   deferred, stopped, wg, parVars, sepPc, pointChan, sent,
                   blockedIds, flushVars>>

\* The deferred wg.Wait() returns: the flusher and the separate gatherers are done.
RunDeferredWait ==
    /\ runPc = "deferWait"
    /\ wg = 0
    /\ runPc' = "stopping"
    /\ UNCHANGED <<cfgVars, testVars, lifeVars, shutdown, runI, runErr,
                   deferred, stopped, wg, parVars, sepPc, pointChan, sent,
                   blockedIds, flushVars>>

RECURSIVE Reverse(_)
Reverse(q) == IF q = <<>> THEN <<>> ELSE Append(Reverse(Tail(q)), Head(q))

\* Mutant: the deferred Stop calls run in the order they were deferred.
RunReturn_NoReverse ==
    /\ runPc = "stopping"
    /\ stopped' = stopped \o deferred
    /\ deferred' = <<>>
    /\ runPc' = "returned"
    /\ UNCHANGED <<cfgVars, testVars, lifeVars, shutdown, runI, runErr, wg,
                   parVars, sepPc, pointChan, sent, blockedIds, flushVars>>

\* Run returns: the deferred p.Stop() calls run, last deferred first.
RunReturn ==
    /\ runPc = "stopping"
    /\ stopped' = stopped \o Reverse(deferred)
    /\ deferred' = <<>>
    /\ runPc' = "returned"
    /\ UNCHANGED <<cfgVars, testVars, lifeVars, shutdown, runI, runErr, wg,
                   parVars, sepPc, pointChan, sent, blockedIds, flushVars>>

\* ------------------------------------------------------------ gatherParallel tasks
\* A parallel-mode task of plugin p is inside plugin.Gather and not blocked.
ParRunning(p) == parTasks[p] - parBlocked[p] > 0

\* Gather publishes a point: the channel has room.
ParAdd(p) ==
    /\ ParRunning(p)
    /\ CanAdd
    /\ AccumulatorSend(FALSE)
    /\ UNCHANGED <<cfgVars, testVars, lifeVars, shutdown, runVars, wg, parVars,
                   sepPc, flushVars>>

\* Gather publishes a point: the channel is full and the send blocks.
ParBlock(p) ==
    /\ ParRunning(p)
    /\ CanAdd
    /\ ~ChanHasRoom
    /\ parBlocked' = [parBlocked EXCEPT ![p] = @ + 1]
    /\ UNCHANGED <<cfgVars, testVars, lifeVars, shutdown, runVars, wg, parWg,
                   parTasks, passCount, sepPc, pointChan, sent, blockedIds,
                   flushVars>>

\* A blocked send completes.
ParUnblock(p) ==
    /\ parBlocked[p] > 0
    /\ AccumulatorSend(TRUE)
    /\ parBlocked' = [parBlocked EXCEPT ![p] = @ - 1]
    /\ UNCHANGED <<cfgVars, testVars, lifeVars, shutdown, runVars, wg, parWg,
                   parTasks, passCount, sepPc, flushVars>>

\* Gather returns (its error is logged and swallowed); defer wg.Done().
ParReturn(p) ==
    /\ ParRunning(p)
    /\ parTasks' = [parTasks EXCEPT ![p] = @ - 1]
    /\ parWg' = parWg - 1
    /\ UNCHANGED <<cfgVars, testVars, lifeVars, shutdown, runVars, wg,
                   parBlocked, passCount, sepPc, pointChan, sent, blockedIds,
                   flushVars>>

\* ------------------------------------------------------------ gatherSeparate
SepAdd(p) ==
    /\ sepPc[p] = "gather"
    /\ CanAdd
    /\ AccumulatorSend(FALSE)
    /\ UNCHANGED <<cfgVars, testVars, lifeVars, shutdown, runVars, wg, parVars,
                   sepPc, flushVars>>

SepBlock(p) ==
    /\ sepPc[p] = "gather"
    /\ CanAdd
    /\ ~ChanHasRoom
    /\ sepPc' = [sepPc EXCEPT ![p] = "blocked"]
    /\ UNCHANGED <<cfgVars, testVars, lifeVars, shutdown, runVars, wg, parVars,
                   pointChan, sent, blockedIds, flushVars>>

SepUnblock(p) ==
    /\ sepPc[p] = "blocked"
    /\ AccumulatorSend(TRUE)
    /\ sepPc' = [sepPc EXCEPT ![p] = "gather"]
    /\ UNCHANGED <<cfgVars, testVars, lifeVars, shutdown, runVars, wg, parVars,
                   flushVars>>

\* Gather returns; the task reaches its select.
SepReturn(p) ==
    /\ sepPc[p] = "gather"
    /\ sepPc' = [sepPc EXCEPT ![p] = "select"]
    /\ UNCHANGED <<cfgVars, testVars, lifeVars, shutdown, runVars, wg, parVars,
                   pointChan, sent, blockedIds, flushVars>>

\* select: case <-shutdown: return nil; the wrapper's defer wg.Done().
SepSelectShutdown(p) ==
    /\ sepPc[p] = "select"
    /\ shutdown
    /\ sepPc' = [sepPc EXCEPT ![p] = "done"]
    /\ wg' = wg - 1
    /\ UNCHANGED <<cfgVars, testVars, lifeVars, shutdown, runVars, parVars,
                   pointChan, sent, blockedIds, flushVars>>

\* select: case <-ticker.C: continue
SepSelectTick(p) ==
    /\ sepPc[p] = "select"
    /\ sepPc' = [sepPc EXCEPT ![p] = "gather"]
    /\ UNCHANGED <<cfgVars, testVars, lifeVars, shutdown, runVars, wg, parVars,
                   pointChan, sent, blockedIds, flushVars>>

\* ------------------------------------------------------------ flush, flusher
\* A writeOutput task as flush starts it: retry := 0, nothing written yet.
NewWriter(b, o) ==
    [batch |-> b, out |-> o, pc |-> "write", retry |-> 0, writes |-> 0,
     succeeded |-> FALSE, exit |-> "none"]

\* Mutant: flush without its test for an empty list.
Flush_NoEmptyCheck(pts) ==
    /\ batches' = Append(batches, pts)
    /\ writers' = writers \o [o \in Outputs |-> NewWriter(Len(batches) + 1, o)]

\* flush(pts): nothing for an empty list, else one writeOutput task per output.
Flush(pts) ==
    IF Len(pts) = 0
    THEN UNCHANGED <<batches, writers>>
    ELSE /\ batches' = Append(batches, pts)
         /\ writers' = writers \o [o \in Outputs |-> NewWriter(Len(batches) + 1, o)]

\* time.Sleep(100ms); ticker := time.NewTicker(...); points := empty
FlusherStart ==
    /\ flusherPc = "sleep"
    /\ flusherPc' = "loop"
    /\ UNCHANGED <<cfgVars, testVars, lifeVars, shutdown, runVars, wg, parVars,
                   sepPc, pointChan, sent, blockedIds, points, batches,
                   writers>>

\* Mutant: the flusher returns on shutdown without flushing its buffer.
FlusherShutdown_NoFlush ==
    /\ flusherPc = "loop"
    /\ shutdown
    /\ flusherPc' = "done"
    /\ wg' = wg - 1
    /\ UNCHANGED <<cfgVars, testVars, lifeVars, shutdown, runVars, parVars,
                   sepPc, pointChan, sent, blockedIds, points, batches,
                   writers>>

\* select: case <-shutdown: flush the buffer and return; Run's wrapper does wg.Done().
FlusherShutdown ==
    /\ flusherPc = "loop"
    /\ shutdown
    /\ Flush(points)
    /\ flusherPc' = "done"
    /\ wg' = wg - 1
    /\ UNCHANGED <<cfgVars, testVars, lifeVars, shutdown, runVars, parVars,
                   sepPc, pointChan, sent, blockedIds, points>>

\* select: case <-ticker.C: flush the buffer and start a new one.
FlusherTick ==
    /\ flusherPc = "loop"
    /\ Flush(points)
    /\ points' = <<>>
    /\ UNCHANGED <<cfgVars, testVars, lifeVars, shutdown, runVars, wg, parVars,
                   sepPc, pointChan, sent, blockedIds, flusherPc>>

\* Mutant: the received point replaces the buffer instead of extending it.
FlusherReceive_Overwrite ==
    /\ flusherPc = "loop"
    /\ pointChan # <<>>
    /\ points' = <<Head(pointChan)>>
    /\ pointChan' = Tail(pointChan)
    /\ UNCHANGED <<cfgVars, testVars, lifeVars, shutdown, runVars, wg, parVars,
                   sepPc, sent, blockedIds, flusherPc, batches, writers>>

\* select: case pt := <-pointChan: append to the buffer.
FlusherReceive ==
    /\ flusherPc = "loop"
    /\ pointChan # <<>>
    /\ points' = Append(points, Head(pointChan))
    /\ pointChan' = Tail(pointChan)
    /\ UNCHANGED <<cfgVars, testVars, lifeVars, shutdown, runVars, wg, parVars,
                   sepPc, sent, blockedIds, flusherPc, batches, writers>>

\* ------------------------------------------------------------ writeOutput
\* Mutant: the writer gives up one attempt early.
NoMoreRetries_Early(retry) == retry + 1 >= flushRetries

\* Mutant: the retry budget is compared off by one (retry > retries).
NoMoreRetries_OffByOne(retry) == retry > flushRetries

\* The writer gives up retrying.
NoMoreRetries(retry) == retry >= flushRetries

\* What follows ro.output.Write returning ok (err == nil) or not, with `retry`
\* the value of the loop's counter: the select on shutdown, then the three cases.
AfterWrite(wr, retry, ok) ==
    LET base == [wr EXCEPT !.writes = @ + 1, !.retry = retry,
                           !.succeeded = @ \/ ok]
    IN  IF shutdown THEN [base EXCEPT !.pc = "done", !.exit = "shutdown"]
        ELSE IF ok THEN [base EXCEPT !.pc = "done", !.exit = "success"]
        ELSE IF NoMoreRetries(retry) THEN [base EXCEPT !.pc = "done", !.exit = "dropped"]
        ELSE [base EXCEPT !.pc = "sleep"]

\* One pass of writeOutput's loop: the first Write, or the end of the sleep,
\* retry++ and the next Write; then the select.  Write's result is the sink's.
WriteOutput(w) ==
    /\ writers[w].pc \in {"write", "sleep"}
    /\ \E ok \in BOOLEAN :
         LET retry == IF writers[w].pc = "sleep" THEN writers[w].retry + 1
                      ELSE writers[w].retry
         IN  writers' = [writers EXCEPT ![w] = AfterWrite(writers[w], retry, ok)]
    /\ UNCHANGED <<cfgVars, testVars, lifeVars, shutdown, runVars, wg, parVars,
                   sepPc, pointChan, sent, blockedIds, flusherPc, points,
                   batches>>

\* ------------------------------------------------------------ Test
\* a.Tags as NewAgent leaves it: agent.Tags["host"] = agent.Hostname.
AgentTags == {"host"}

\* NewAccumulator(plugin.config, pointChan): an accumulator for plugin p,
\* without a prefix or default tags until its setters are called.
NewAccumulator(p) == [plugin |-> p, prefix |-> <<>>, defaultTags |-> {}]

\* acc.SetPrefix(plugin.name + "_")
SetPrefix(acc, nm) == [acc EXCEPT !.prefix = <<nm, "_">>]

\* acc.SetDefaultTags(a.Tags)
SetDefaultTags(acc, tags) == [acc EXCEPT !.defaultTags = tags]

\* The accumulator gatherParallel and gatherSeparate hand to Gather.
GatherAccumulator(p) ==
    SetDefaultTags(SetPrefix(NewAccumulator(p), name[p]), AgentTags)

\* The accumulator Test hands to Gather.
TestAccumulator(p) == SetPrefix(NewAccumulator(p), name[p])

\* shutdown := make(chan struct{}); pointChan := make(chan *client.Point);
\* go a.flusher(shutdown, pointChan)
TestSpawnFlusher ==
    /\ testPc = "start"
    /\ testPc' = "loop"
    /\ flusherPc' = "sleep"
    /\ UNCHANGED <<cfgVars, lifeVars, runOnlyVars, shutdown, sent, points, batches,
                   writers, testI, testErr, gatherCalls, accOf>>

\* The next plugin of the loop: its accumulator and plugin.plugin.Gather(acc).
TestGather ==
    /\ testPc = "loop"
    /\ testI <= NumPlugins
    /\ gatherCalls' = [gatherCalls EXCEPT ![testI] = @ + 1]
    /\ testPc' = "gather"
    /\ UNCHANGED <<cfgVars, lifeVars, runOnlyVars, shutdown, sent, points, batches,
                   writers, flusherPc, testI, testErr, accOf>>

\* Gather publishes a point: pointChan is unbuffered, so the send completes
\* when the flusher takes it in its select and appends it to its buffer.
TestAdd ==
    /\ testPc = "gather"
    /\ flusherPc = "loop"
    /\ sent < MaxPoints
    /\ sent' = sent + 1
    /\ points' = Append(points, sent + 1)
    /\ accOf' = Append(accOf, TestAccumulator(testI))
    /\ UNCHANGED <<cfgVars, lifeVars, runOnlyVars, shutdown, batches, writers,
                   flusherPc, testPc, testI, testErr, gatherCalls>>

\* Mutant: Test gathers every plugin a second time.
SecondGather_Always(p) == TRUE

\* switch plugin.name { case "cpu": ... }: the plugin is gathered twice.
SecondGather(p) == name[p] = "cpu"

\* Gather returns.  An error ends Test (the deferred close(shutdown) runs);
\* after the first Gather of cpu, the sleep and the second Gather follow;
\* otherwise the loop goes on.
TestGatherReturn ==
    /\ testPc = "gather"
    /\ \E ok \in BOOLEAN :
         IF ~ok
         THEN /\ testErr' = TRUE
              /\ shutdown' = TRUE
              /\ testPc' = "returned"
              /\ UNCHANGED <<testI, gatherCalls>>
         ELSE IF SecondGather(testI) /\ gatherCalls[testI] = 1
         THEN /\ gatherCalls' = [gatherCalls EXCEPT ![testI] = @ + 1]
              /\ UNCHANGED <<shutdown, testPc, testI, testErr>>
         ELSE /\ testI' = testI + 1
              /\ testPc' = "loop"
              /\ UNCHANGED <<shutdown, testErr, gatherCalls>>
    /\ UNCHANGED <<cfgVars, lifeVars, runOnlyVars, sent, points, batches, writers,
                   flusherPc, accOf>>

\* The loop over a.plugins is over: return nil; the deferred close(shutdown).
TestReturn ==
    /\ testPc = "loop"
    /\ testI > NumPlugins
    /\ shutdown' = TRUE
    /\ testPc' = "returned"
    /\ UNCHANGED <<cfgVars, lifeVars, runOnlyVars, sent, points, batches, writers,
                   flusherPc, testI, testErr, gatherCalls, accOf>>

\* The flusher Test started (not in a WaitGroup), select: case <-shutdown.
TestFlusherShutdown ==
    /\ flusherPc = "loop"
    /\ shutdown
    /\ Flush(points)
    /\ flusherPc' = "done"
    /\ UNCHANGED <<cfgVars, lifeVars, runOnlyVars, testVars, shutdown, sent, points>>

\* ------------------------------------------------------------ LoadOutputs, LoadPlugins
\* A name a configuration declares that no registry knows.
Unregistered == "bogus"

RECURSIVE SeqsOver(_, _)
\* The sequences of at most n distinct elements of S.
SeqsOver(S, n) ==
    IF n = 0 \/ S = {} THEN {<<>>}
    ELSE {<<>>} \cup UNION {{<<x>> \o q : q \in SeqsOver(S \ {x}, n - 1)} : x \in S}

\* config.PluginsDeclared() / config.OutputsDeclared(): the declared names.
Declared(registry) == SeqsOver(registry \cup {Unregistered}, MaxLoaded)

\* sliceContains(name, filters) || len(filters) == 0
PassesFilter(nm, filters) == nm \in filters \/ filters = {}

\* The loop of a Load call can end after n entries of `declared`: at the end
\* of the list, at an entry the registry does not know, or at an entry that
\* is enabled and whose ApplyPlugin / ApplyOutput fails.
LoadEndsAfter(declared, registry, filters, n) ==
    /\ \A i \in 1..n : declared[i] \in registry
    /\ IF n = Len(declared) THEN TRUE
       ELSE declared[n + 1] \notin registry \/ PassesFilter(declared[n + 1], filters)

\* The running list after a Load call whose loop processed n entries: every
\* enabled one of them is appended.
Loaded(existing, declared, filters, n) ==
    LET Enabled(nm) == PassesFilter(nm, filters)
    IN  existing \o SelectSeq(SubSeq(declared, 1, n), Enabled)

LoadOutputs ==
    /\ lifePc = "load"
    /\ \E declared \in Declared(OutputNames), filters \in SUBSET OutputNames :
         \E n \in 0..Len(declared) :
            /\ LoadEndsAfter(declared, OutputNames, filters, n)
            /\ Len(Loaded(outputNames, declared, filters, n)) <= MaxLoaded
            /\ outputNames' = Loaded(outputNames, declared, filters, n)
    /\ UNCHANGED <<cfgVars, testVars, taskVars, pluginNames, lifePc, connI, connLog,
                   connRet, closeI, closeLog, closeErr>>

LoadPlugins ==
    /\ lifePc = "load"
    /\ \E declared \in Declared(PluginNames), filters \in SUBSET PluginNames :
         \E n \in 0..Len(declared) :
            /\ LoadEndsAfter(declared, PluginNames, filters, n)
            /\ Len(Loaded(pluginNames, declared, filters, n)) <= MaxLoaded
            /\ pluginNames' = Loaded(pluginNames, declared, filters, n)
    /\ UNCHANGED <<cfgVars, testVars, taskVars, outputNames, lifePc, connI, connLog,
                   connRet, closeI, closeLog, closeErr>>

\* ------------------------------------------------------------ Connect
\* The caller is done loading and calls Connect.
ConnectStart ==
    /\ lifePc = "load"
    /\ lifePc' = "connect"
    /\ UNCHANGED <<cfgVars, testVars, taskVars, outputNames, pluginNames, connI,
                   connLog, connRet, closeI, closeLog, closeErr>>

\* err := o.output.Connect(): on failure, sleep 15 s before the second call.
ConnectFirst ==
    /\ lifePc = "connect"
    /\ connI <= Len(outputNames)
    /\ \E ok \in BOOLEAN :
         /\ connLog' = Append(connLog, <<connI, ok>>)
         /\ IF ok THEN connI' = connI + 1 /\ UNCHANGED lifePc
                  ELSE lifePc' = "retry" /\ UNCHANGED connI
    /\ UNCHANGED <<cfgVars, testVars, taskVars, outputNames, pluginNames, connRet,
                   closeI, closeLog, closeErr>>

\* Mutant: a second failure is ignored and Connect goes on to the next output.
ConnectRetry_NoAbort ==
    /\ lifePc = "retry"
    /\ \E ok \in BOOLEAN :
         /\ connLog' = Append(connLog, <<connI, ok>>)
         /\ connI' = connI + 1
         /\ lifePc' = "connect"
    /\ UNCHANGED <<cfgVars, testVars, taskVars, outputNames, pluginNames, connRet,
                   closeI, closeLog, closeErr>>

\* err = o.output.Connect(), the second call: on failure, return err.
ConnectRetry ==
    /\ lifePc = "retry"
    /\ \E ok \in BOOLEAN :
         /\ connLog' = Append(connLog, <<connI, ok>>)
         /\ IF ok THEN /\ connI' = connI + 1
                       /\ lifePc' = "connect"
                       /\ UNCHANGED connRet
                  ELSE /\ connRet' = "err"
                       /\ lifePc' = "connected"
                       /\ UNCHANGED connI
    /\ UNCHANGED <<cfgVars, testVars, taskVars, outputNames, pluginNames, closeI,
                   closeLog, closeErr>>

\* The loop over a.outputs is over: return nil.
ConnectReturn ==
    /\ lifePc = "connect"
    /\ connI > Len(outputNames)
    /\ connRet' = "nil"
    /\ lifePc' = "connected"
    /\ UNCHANGED <<cfgVars, testVars, taskVars, outputNames, pluginNames, connI,
                   connLog, closeI, closeLog, closeErr>>

\* ------------------------------------------------------------ Close
\* The caller calls Close: var err error.
CloseStart ==
    /\ lifePc = "connected"
    /\ lifePc' = "close"
    /\ UNCHANGED <<cfgVars, testVars, taskVars, outputNames, pluginNames, connI,
                   connLog, connRet, closeI, closeLog, closeErr>>

\* Mutant: Close keeps the first error instead of the last result.
CloseCall_KeepFirstError ==
    /\ lifePc = "close"
    /\ closeI <= Len(outputNames)
    /\ \E ok \in BOOLEAN :
         /\ closeLog' = Append(closeLog, <<closeI, ok>>)
         /\ closeErr' = (closeErr \/ ~ok)
    /\ closeI' = closeI + 1
    /\ UNCHANGED <<cfgVars, testVars, taskVars, outputNames, pluginNames, lifePc,
                   connI, connLog, connRet>>

\* err = o.output.Close(), for the next output of the loop.
CloseCall ==
    /\ lifePc = "close"
    /\ closeI <= Len(outputNames)
    /\ \E ok \in BOOLEAN :
         /\ closeLog' = Append(closeLog, <<closeI, ok>>)
         /\ closeErr' = ~ok
    /\ closeI' = closeI + 1
    /\ UNCHANGED <<cfgVars, testVars, taskVars, outputNames, pluginNames, lifePc,
                   connI, connLog, connRet>>

\* The loop over a.outputs is over: return err.
CloseReturn ==
    /\ lifePc = "close"
    /\ closeI > Len(outputNames)
    /\ lifePc' = "closed"
    /\ UNCHANGED <<cfgVars, testVars, taskVars, outputNames, pluginNames, connI,
                   connLog, connRet, closeI, closeLog, closeErr>>

\* ------------------------------------------------------------ specifications
\* The writeOutput tasks flush has started.
WriterIds == DOMAIN writers

\* The steps of Run, the gatherers and the flusher.
NextGather ==
    \/ Shutdown
    \/ RunSpawnFlusher \/ RunPlugin \/ RunGatherParallel \/ RunParallelWait
    \/ RunSelectShutdown \/ RunSelectTick \/ RunDeferredWait \/ RunReturn
    \/ \E p \in Plugins : ParAdd(p) \/ ParBlock(p) \/ ParUnblock(p) \/ ParReturn(p)
    \/ \E p \in Plugins : SepAdd(p) \/ SepBlock(p) \/ SepUnblock(p) \/ SepReturn(p)
    \/ \E p \in Plugins : SepSelectShutdown(p) \/ SepSelectTick(p)
    \/ FlusherStart \/ FlusherShutdown \/ FlusherTick \/ FlusherReceive

\* The steps of the writers.
NextWrite == \E w \in WriterIds : WriteOutput(w)

Next == NextGather \/ NextWrite

\* Run and the tasks it starts use plugin.name only in the accumulator's
\* prefix and in log lines, so one choice of names stands for all of them.
InitRun == Init /\ name = [p \in Plugins |-> "mem"]

\* An agent none of whose plugins is a ServicePlugin.
InitNoService == InitRun /\ service = [p \in Plugins |-> FALSE]

\* The whole agent: Run, gatherers, flusher and writers.  The writers read
\* only shutdown and FlushRetries, so the plugins' Start/Stop (which none of
\* them can observe) is left to SpecGather.
Spec == InitNoService /\ [][Next]_vars

\* Run, the gatherers and the flusher, for every plugin configuration.  The
\* writers flush starts are recorded but take no step: no variable a writer
\* changes is read by Run, a gatherer or the flusher.
SpecGather == InitRun /\ [][NextGather]_vars

\* Test, the flusher it starts and the writers.
NextTest ==
    \/ TestSpawnFlusher \/ TestGather \/ TestAdd \/ TestGatherReturn \/ TestReturn
    \/ FlusherStart \/ FlusherTick \/ TestFlusherShutdown
    \/ NextWrite

\* An agent with its plugins loaded, on which Test is called.  Test does
\* not look at whether a plugin is a ServicePlugin.
InitTest == Init /\ service = [p \in Plugins |-> FALSE]

SpecTest == InitTest /\ [][NextTest]_vars

\* Test and the flusher it starts.  The writers flush starts are recorded
\* but take no step: Test and the flusher read nothing a writer changes.
NextTestGather ==
    \/ TestSpawnFlusher \/ TestGather \/ TestAdd \/ TestGatherReturn \/ TestReturn
    \/ FlusherStart \/ FlusherTick \/ TestFlusherShutdown

SpecTestGather == InitTest /\ [][NextTestGather]_vars

\* The calls a program makes on an agent around Run: the Load calls, then
\* Connect, then Close.
NextLife ==
    \/ LoadOutputs \/ LoadPlugins
    \/ ConnectStart \/ ConnectFirst \/ ConnectRetry \/ ConnectReturn
    \/ CloseStart \/ CloseCall \/ CloseReturn

\* An agent as NewAgent returns it, nothing loaded.  The variables of Run
\* and Test play no part and keep one value.
InitLife ==
    /\ InitRun
    /\ interval = [p \in Plugins |-> 0]
    /\ service = [p \in Plugins |-> FALSE]
    /\ flushRetries = 0

SpecLife == InitLife /\ [][NextLife]_vars

\* ------------------------------------------------------------ claims
\* C1: every writer makes at most FlushRetries + 1 Write calls, and a writer
\* one of whose Write calls returned success has terminated (it makes no
\* further Write call), whatever shutdown and the other writers do.
C1_AttemptsBounded ==
    \A w \in WriterIds :
        /\ writers[w].writes <= flushRetries + 1
        /\ writers[w].succeeded => writers[w].pc = "done"

\* Two writers are live at once, one of them retrying after a failed Write,
\* and a third has stopped after a successful Write that was a retry.
C1_Witness ==
    \E w1, w2, w3 \in WriterIds :
        /\ w1 # w2 /\ w2 # w3 /\ w1 # w3
        /\ writers[w1].pc = "sleep"
        /\ writers[w2].pc = "write"
        /\ writers[w3].exit = "success" /\ writers[w3].writes = flushRetries + 1
        /\ flushRetries > 0

\* The points of batch b, as a set.
BatchPoints(b) == {batches[b][i] : i \in 1..Len(batches[b])}

\* The flusher's buffer while the flusher runs (it dies with the flusher).
Buffered == IF flusherPc = "done" THEN {} ELSE {points[i] : i \in 1..Len(points)}

InChannel == {pointChan[i] : i \in 1..Len(pointChan)}

\* C2: a writer all of whose Write calls failed and that was not stopped by
\* shutdown made exactly FlushRetries + 1 calls and then dropped its batch
\* (until then it is at a Write or in its sleep, never waiting for another
\* task); the batch of a writer is not put back into the flusher's buffer
\* or the channel, no other batch holds its points, and no second writer is
\* started for the same batch and sink.
C2_DropAfterAllRetries ==
    /\ \A w \in WriterIds :
         /\ writers[w].exit = "dropped" =>
              /\ writers[w].pc = "done"
              /\ writers[w].writes = flushRetries + 1
              /\ ~writers[w].succeeded
         /\ (~shutdown /\ writers[w].pc = "done" /\ ~writers[w].succeeded) =>
              /\ writers[w].exit = "dropped"
              /\ writers[w].writes = flushRetries + 1
         /\ writers[w].writes = flushRetries + 1 => writers[w].pc = "done"
         /\ writers[w].pc # "done" => writers[w].pc \in {"write", "sleep"}
         /\ BatchPoints(writers[w].batch) \cap (Buffered \cup InChannel) = {}
         /\ \A b \in 1..Len(batches) :
              b # writers[w].batch =>
                  BatchPoints(b) \cap BatchPoints(writers[w].batch) = {}
    /\ \A w1, w2 \in WriterIds :
         (w1 # w2) =>
             <<writers[w1].batch, writers[w1].out>> # <<writers[w2].batch, writers[w2].out>>

\* With retries configured and no shutdown, a writer dropped its batch after
\* failing every time, and a later tick has started a fresh writer for the
\* same sink with a new batch.
C2_Witness ==
    \E w1, w2 \in WriterIds :
        /\ ~shutdown
        /\ flushRetries > 0
        /\ writers[w1].exit = "dropped"
        /\ writers[w2].out = writers[w1].out
        /\ writers[w2].batch > writers[w1].batch
        /\ writers[w2].pc = "write"

\* C3: once shutdown is signalled, a writer that is in its sleep between
\* retries makes no further Write call.
C3_NoWriteAfterShutdownInSleep ==
    [][\A w \in WriterIds :
          (shutdown /\ writers[w].pc = "sleep") =>
              writers'[w].writes = writers[w].writes]_vars

\* Every task Run has spawned is over.
GatherTasksDone ==
    /\ flusherPc \in {"none", "done"}
    /\ \A p \in Plugins : sepPc[p] \in {"none", "done"} /\ parTasks[p] = 0

WritersDone == \A w \in WriterIds : writers[w].pc = "done"

\* C5: when Run has returned after shutdown, the flusher, the gatherers,
\* the parallel collector tasks and every writer have completed.
C5_NoLiveTaskAtReturn ==
    (runPc = "returned" /\ ~runErr) => (GatherTasksDone /\ WritersDone)

\* C4: once shutdown is closed, Run returns and the flusher and every
\* gatherer terminate.  Stated on finite runs: after shutdown, as long as
\* Run has not returned or a task it spawned is live, some task can take
\* a step (no fair run can stop there).  Runs that a failed Start ended
\* are left aside.
C4_ShutdownTerminates ==
    (shutdown /\ ~runErr) => ((runPc = "returned" /\ GatherTasksDone) \/ ENABLED NextGather)

\* How often point id occurs in the sequence q.
Count(q, id) == Cardinality({i \in 1..Len(q) : q[i] = id})

RECURSIVE CountInBatches(_, _)
CountInBatches(n, id) ==
    IF n = 0 THEN 0 ELSE Count(batches[n], id) + CountInBatches(n - 1, id)

\* The batches flush dispatched that hold point id.
BatchesOf(id) == {b \in 1..Len(batches) : id \in BatchPoints(b)}

\* C6 as written: every point sent is received by the flusher and is in
\* exactly one dispatched batch, shutdown or not; on finite runs, this is
\* so once the flusher has finished.
C6_EveryPointDispatched ==
    flusherPc = "done" => \A id \in 1..sent : CountInBatches(Len(batches), id) = 1

\* C6 as amended: a point sent is at every moment in exactly one place (the
\* channel, the running flusher's buffer, one dispatched batch), once;
\* nothing else is in those places; so when the flusher has finished, a
\* point is either in exactly one dispatched batch or was left in the
\* channel, which the flusher does not drain at shutdown.
C6_PointsConserved ==
    /\ \A id \in 1..sent :
         Count(pointChan, id)
           + (IF flusherPc = "done" THEN 0 ELSE Count(points, id))
           + CountInBatches(Len(batches), id) = 1
    /\ InChannel \cup Buffered \cup UNION {BatchPoints(b) : b \in 1..Len(batches)}
         \subseteq 1..sent
    /\ flusherPc = "done" =>
         \A id \in 1..sent :
             \/ id \in InChannel /\ BatchesOf(id) = {}
             \/ id \notin InChannel /\ Cardinality(BatchesOf(id)) = 1

\* Every point published is in a dispatched batch, among them one whose
\* send had to wait for room in the channel, in a batch of two points.
C6_Witness ==
    /\ sent = MaxPoints
    /\ \A id \in 1..sent : Cardinality(BatchesOf(id)) = 1
    /\ \E id \in blockedIds : \E b \in BatchesOf(id) : Len(batches[b]) = 2

\* The writers started for batch b, per output.
WritersOf(b, o) == {w \in DOMAIN writers : writers[w].batch = b /\ writers[w].out = o}

\* flush was just applied to pts: nothing changed for an empty pts, else
\* pts became the newest batch and exactly one fresh writer per output was
\* started for it, the earlier writers staying as they were.
Dispatched(pts) ==
    IF pts = <<>>
    THEN batches' = batches /\ writers' = writers
    ELSE /\ batches' = Append(batches, pts)
         /\ Len(writers') = Len(writers) + NumOutputs
         /\ SubSeq(writers', 1, Len(writers)) = writers
         /\ \A o \in Outputs :
              \E w \in (DOMAIN writers') \ (DOMAIN writers) :
                  writers'[w] = NewWriter(Len(batches) + 1, o)

\* C7: a flush tick takes exactly the buffered points as the batch and
\* empties the buffer; a non-empty buffer gets exactly one writer per
\* output, an empty one no writer; no point is in two batches, nor in a
\* batch and still in the buffer.
C7_TickTakesBuffer ==
    /\ [][FlusherTick => (points' = <<>> /\ Dispatched(points))]_vars
    /\ [](\A id \in 1..sent :
              CountInBatches(Len(batches), id)
                + (IF flusherPc = "done" THEN 0 ELSE Count(points, id)) <= 1)
    /\ [](\A b \in 1..Len(batches) : \A o \in Outputs :
              Cardinality(WritersOf(b, o)) = 1)

\* Two ticks have dispatched two batches, one writer per output each, and a
\* point received after the second tick waits in the buffer.
C7_Witness ==
    /\ Len(batches) = 2
    /\ Len(writers) = 2 * NumOutputs
    /\ flusherPc = "loop"

\* C8: the flusher's shutdown branch dispatches its buffer once and the
\* flusher is done; from then on it receives nothing from the channel,
\* its buffer stays as it was and no batch or writer is added.
C8_FinalFlushOnce ==
    /\ [][FlusherShutdown => (flusherPc' = "done" /\ Dispatched(points))]_vars
    /\ [][flusherPc = "done" =>
            /\ flusherPc' = "done"
            /\ points' = points
            /\ batches' = batches
            /\ Len(writers') = Len(writers)
            /\ Len(pointChan') >= Len(pointChan)]_vars

\* The flusher has finished with a final batch dispatched to every output
\* while a point sent after its exit stays in the channel.
C8_Witness ==
    /\ flusherPc = "done"
    /\ batches # <<>>
    /\ batches[Len(batches)] = points
    /\ Len(writers) = Len(batches) * NumOutputs
    /\ pointChan # <<>>

\* Run has passed its loop over a.plugins without a failed Start.
InGatherLoop ==
    \/ runPc \in {"gather", "wait", "select", "deferWait"}
    \/ runPc \in {"stopping", "returned"} /\ ~runErr

\* C9: parallel mode gathers exactly the plugins whose interval is zero,
\* once each per pass; a plugin with a non-zero interval is gathered by
\* its own separate task and by nothing else; once Run is in its gather
\* loop every plugin has its gatherer (a separate task, or the passes).
C9_ModesPartitionPlugins ==
    /\ \A p \in Plugins :
         /\ parTasks[p] > 0 => interval[p] = 0
         /\ sepPc[p] # "none" => interval[p] # 0
         /\ ~(parTasks[p] > 0 /\ sepPc[p] # "none")
    /\ runPc \in {"wait", "select"} =>
         \A p \in Plugins : passCount[p] = (IF interval[p] = 0 THEN 1 ELSE 0)
    /\ runPc \in {"start", "plugins"} => \A p \in Plugins : passCount[p] = 0
    /\ InGatherLoop =>
         \A p \in Plugins : interval[p] # 0 => sepPc[p] # "none"

\* A pass is gathering a zero-interval plugin while the other plugin, with
\* an interval of its own, is gathered by its separate task.
C9_Witness ==
    \E p, q \in Plugins :
        /\ interval[p] = 0 /\ interval[q] # 0
        /\ runPc = "wait" /\ parTasks[p] = 1 /\ passCount[p] = 1 /\ passCount[q] = 0
        /\ sepPc[q] = "gather"

\* C10: passes of gatherParallel do not overlap: at most one parallel-mode
\* Gather per plugin is in progress, and whenever Run is not inside
\* gatherParallel (at the select, about to start a pass, or later) no
\* parallel-mode Gather is in progress.
C10_PassesDoNotOverlap ==
    /\ \A p \in Plugins : parTasks[p] <= 1
    /\ runPc # "wait" => \A p \in Plugins : parTasks[p] = 0
    /\ parWg = SumTo(parTasks, NumPlugins)

\* Run waits in gatherParallel for a collector that is blocked on the full
\* channel while the other collector of the pass has returned.
C10_Witness ==
    \E p, q \in Plugins :
        /\ p # q /\ interval[p] = 0 /\ interval[q] = 0
        /\ runPc = "wait"
        /\ parTasks[p] = 1 /\ parBlocked[p] = 1
        /\ parTasks[q] = 0
        /\ sent > 0

\* The ServicePlugins whose Start has returned nil, in the order of the calls:
\* Run's loop passes a plugin only after its Start succeeded.
Started ==
    LET StartOk(p) == service[p] /\ p < runI
    IN  SelectSeq([p \in Plugins |-> p], StartOk)

\* C11: when Run has returned, after shutdown or after a failed Start, the
\* Stop calls made are exactly those of the service plugins whose Start
\* succeeded, one each, in the reverse of the order of their Start calls.
C11_StoppedReverseOfStarted ==
    runPc = "returned" => stopped = Reverse(Started)

\* Run has returned after shutdown with two services started and stopped.
C11_Witness ==
    /\ runPc = "returned"
    /\ ~runErr
    /\ Len(stopped) >= 2
    /\ stopped[1] > stopped[2]

\* A Gather has been invoked: a gatherSeparate task or a gatherParallel pass
\* has been started, or a point has been published.
GatherInvoked ==
    \/ sent > 0
    \/ \E p \in Plugins : sepPc[p] # "none" \/ parTasks[p] > 0

\* Run's loop over a.plugins has yet to call Start on some service plugin.
StartPending ==
    /\ runPc \in {"start", "plugins"}
    /\ \E q \in Plugins : q >= runI /\ service[q]

\* Every gatherSeparate task and every gatherParallel task is over.
GatherersDone ==
    \A p \in Plugins : sepPc[p] \in {"none", "done"} /\ parTasks[p] = 0

\* C12: no Gather is invoked while the Start of a service plugin is still
\* to come, and a Stop is called only when every gatherer task has finished.
C12_StartBeforeGatherStopAfter ==
    /\ GatherInvoked => ~StartPending
    /\ stopped # <<>> => GatherersDone

\* C18: once shutdown is closed, Run's loop and every gatherSeparate task
\* leave at their select (the loop boundary): neither takes the ticker's
\* branch and goes on to another Gather pass.
C18_NoPassAfterShutdown ==
    [][/\ (shutdown /\ runPc = "select") => runPc' # "gather"
       /\ \A p \in Plugins :
            (shutdown /\ sepPc[p] = "select") => sepPc'[p] # "gather"]_vars

\* C19: when Run has returned the error of a failed Start, the flusher and
\* every gatherer it had started have terminated.
C19_NoTaskLeftAfterStartError ==
    (runPc = "returned" /\ runErr) => GatherTasksDone

\* The positions in connLog of the Connect calls made on output i.
ConnCalls(i) == {k \in 1..Len(connLog) : connLog[k][1] = i}

\* The result of the last Connect call made on output i.
LastConnectOk(i) ==
    LET last == CHOOSE k \in ConnCalls(i) : \A j \in ConnCalls(i) : j <= k
    IN  connLog[last][2]

\* C13: Connect calls the outputs in load order; an output is called a
\* second time exactly when its first call failed, and never a third time;
\* after a second failure Connect returns the error at once, with no call on
\* a later output; it returns nil only when every output has been called and
\* its last call succeeded.
C13_ConnectRetriesOnce ==
    /\ \A k \in 1..(Len(connLog) - 1) : connLog[k][1] <= connLog[k + 1][1]
    /\ \A i \in 1..Len(outputNames) :
         /\ Cardinality(ConnCalls(i)) <= 2
         /\ Cardinality(ConnCalls(i)) = 2 =>
                ~connLog[CHOOSE k \in ConnCalls(i) : k + 1 \in ConnCalls(i)][2]
    /\ \A k \in 1..Len(connLog) :
         (~connLog[k][2] /\ (k = 1 \/ connLog[k - 1][1] # connLog[k][1])) =>
             IF k = Len(connLog) THEN lifePc = "retry"
             ELSE connLog[k + 1][1] = connLog[k][1]
    /\ connRet = "err" =>
         /\ Len(connLog) >= 2
         /\ connLog[Len(connLog)][1] = connLog[Len(connLog) - 1][1]
         /\ ~connLog[Len(connLog)][2]
         /\ ~connLog[Len(connLog) - 1][2]
    /\ connRet = "nil" =>
         \A i \in 1..Len(outputNames) : ConnCalls(i) # {} /\ LastConnectOk(i)

\* Connect has returned nil for two outputs, one of which connected only at
\* its second call.
C13_Witness ==
    /\ connRet = "nil"
    /\ Len(outputNames) >= 2
    /\ \E i \in 1..Len(outputNames) : Cardinality(ConnCalls(i)) = 2

\* No name occurs twice in the list q.
NoDuplicates(q) == \A i, j \in 1..Len(q) : q[i] = q[j] => i = j

\* C14: after any sequence of LoadPlugins and LoadOutputs calls, a collector
\* name occurs at most once in a.plugins and a sink name at most once in
\* a.outputs.
C14_NamesUnique ==
    NoDuplicates(pluginNames) /\ NoDuplicates(outputNames)

\* C20: when Close has returned, it has called Close once on every output,
\* in load order, whatever the earlier calls returned, and its result is
\* that of the last call alone: nil without outputs or when the last call
\* succeeded.
C20_CloseAllReturnLast ==
    /\ \A k \in 1..Len(closeLog) : closeLog[k][1] = k
    /\ lifePc = "closed" =>
         /\ Len(closeLog) = Len(outputNames)
         /\ closeErr = (closeLog # <<>> /\ ~closeLog[Len(closeLog)][2])

\* Close has returned nil although the Close of an earlier output failed.
C20_Witness ==
    /\ lifePc = "closed"
    /\ Len(outputNames) >= 2
    /\ ~closeLog[1][2]
    /\ closeLog[Len(closeLog)][2]
    /\ ~closeErr

\* An accumulator carries the prefix <collector name>_ and the agent's
\* default tags.
Configured(acc) ==
    /\ acc.prefix = <<name[acc.plugin], "_">>
    /\ AgentTags \subseteq acc.defaultTags

\* C15: every accumulator through which a point reaches the flusher has the
\* collector's prefix and the agent's default tags (with host): those Run's
\* gatherers make, and the one of every point Test's flusher dispatches.
C15_AccumulatorsConfigured ==
    /\ \A p \in Plugins : Configured(GatherAccumulator(p))
    /\ \A b \in 1..Len(batches) :
         \A i \in 1..Len(batches[b]) : Configured(accOf[batches[b][i]])

\* The number of Gather calls Test makes on plugin p when none fails.
Expected(p) == IF name[p] = "cpu" THEN 2 ELSE 1

\* C16 as stated: when Test has returned, every collector has been gathered
\* exactly once, and a collector named cpu exactly twice, whatever the
\* Gather calls returned.
C16_GatherCountsAlways ==
    testPc = "returned" => \A p \in Plugins : gatherCalls[p] = Expected(p)

\* C16 amended: Test never gathers a collector more often than once (cpu:
\* twice); when it returns nil every collector has had exactly that many
\* calls; when it returns the error of a Gather call, the collectors before
\* the failing one have had theirs, the failing one has had one call (or two,
\* if it is cpu and its second call failed) and the later ones none.
C16_GatherCounts ==
    /\ \A p \in Plugins : gatherCalls[p] <= Expected(p)
    /\ (testPc = "returned" /\ ~testErr) =>
           \A p \in Plugins : gatherCalls[p] = Expected(p)
    /\ (testPc = "returned" /\ testErr) =>
           /\ testI \in Plugins
           /\ gatherCalls[testI] >= 1
           /\ \A p \in Plugins :
                /\ p < testI => gatherCalls[p] = Expected(p)
                /\ p > testI => gatherCalls[p] = 0

\* Test has returned nil after two Gather calls on cpu and one on another
\* collector.
C16_Witness ==
    /\ testPc = "returned"
    /\ ~testErr
    /\ \E p, q \in Plugins :
         /\ name[p] = "cpu" /\ gatherCalls[p] = 2
         /\ name[q] # "cpu" /\ gatherCalls[q] = 1

\* C17: no writer started by Test's flusher makes a second Write call, and
\* no gatherSeparate task is started.
C17_NoRetryInTest ==
    /\ \A w \in WriterIds : writers[w].writes <= 1
    /\ \A p \in Plugins : sepPc[p] = "none"
====
